---- MODULE Spec2Model ----
(***************************************************************************)
(* State-machine model of day_69_adding_users_to_blog/main.py: a Flask     *)
(* blog with three SQLite tables (users, blog_posts, comments), a          *)
(* flask_login session per browser, and one handler per route.             *)
(***************************************************************************)
EXTENDS Integers, Sequences, FiniteSets, TLC

VARIABLES users, posts, comments, session, response, pending

vars == <<users, posts, comments, session, response, pending>>

-----------------------------------------------------------------------------
(* Bounds and input domains *)

\* largest blog_posts.id the model lets the store hand out
MaxPostId == 2
\* largest comments.id the model lets the store hand out
MaxCommentId == 1

Clients == {"c1", "c2"}
\* the browser of the sequential specification
Browsers == {"c1"}
Emails == {"a@x.com", "b@x.com"}
Passwords == {"pw1", "pw2"}
Names == {"Ann"}
Salts == {"saltAAAA"}
Titles == {"T1", "T2"}
Subtitles == {"sub"}
Bodies == {"body"}
ImgUrls == {"img"}
CommentTexts == {"hello"}
Dates == {[year |-> 2024, month |-> 4, day |-> 3]}

-----------------------------------------------------------------------------
(* Constants of the program *)

\* the id the admin_only decorator compares against
AdminId == 1
\* a NULL column value; also the user id of a session with no identity
Null == 0

PostIds == 1 .. MaxPostId

-----------------------------------------------------------------------------
(* The store *)

MaxOf(S) == CHOOSE m \in S : \A x \in S : x <= m

\* SQLite INTEGER PRIMARY KEY without AUTOINCREMENT: largest rowid plus one
NextId(table) == IF table = {} THEN 1 ELSE MaxOf({r.id : r \in table}) + 1

\* a lookup that never finds the row
UsersByEmailNone(email) == {}

\* User.query.filter_by(email=email).first(): the matching rows (none or one)
UsersByEmail(email) == {u \in users : u.email = email}

\* BlogPost.query.get(post_id): the matching rows (none or one)
PostsById(post_id) == {p \in posts : p.id = post_id}

\* unique=True on users.email: may `row` be stored beside the rows of `table`
EmailUniqueOk(table, row) == \A u \in table : u.id # row.id => u.email # row.email

\* unique=True on blog_posts.title
TitleUniqueOk(table, row) == \A p \in table : p.id # row.id => p.title # row.title

-----------------------------------------------------------------------------
(* werkzeug.security, as the handlers call it *)

\* the PBKDF2 digest of (salt, password): a collision-free one-way token
HashInternal(method, salt, password) == <<"digest", method, salt, password>>

generate_password_hash(password, salt) ==
    [method |-> "pbkdf2:sha256", salt |-> salt,
     digest |-> HashInternal("pbkdf2:sha256", salt, password)]

\* a check that looks at the method alone
check_password_hash_any(pwhash, password) == pwhash.method = "pbkdf2:sha256"

check_password_hash(pwhash, password) ==
    HashInternal(pwhash.method, pwhash.salt, password) = pwhash.digest

-----------------------------------------------------------------------------
(* flask_login *)

\* load_user: the row the session's user id names, Null for an anonymous session
CurrentUserId(c) ==
    IF session[c] # Null /\ \E u \in users : u.id = session[c] THEN session[c] ELSE Null

\* every visitor counts as logged in
IsAuthenticatedAlways(c) == TRUE

\* current_user.is_authenticated
IsAuthenticated(c) == CurrentUserId(c) # Null

\* admin_only: reading .id of the anonymous user raises AttributeError
AdminGate(c) ==
    IF ~IsAuthenticated(c) THEN "500"
    ELSE IF CurrentUserId(c) # AdminId THEN "403"
    ELSE "pass"

-----------------------------------------------------------------------------
(* date.today().strftime("%B %d, %Y") *)

MonthName == <<"January", "February", "March", "April", "May", "June", "July",
               "August", "September", "October", "November", "December">>

Pad2(n) == IF n < 10 THEN "0" \o ToString(n) ELSE ToString(n)

Strftime(d) == MonthName[d.month] \o " " \o Pad2(d.day) \o ", " \o ToString(d.year)

-----------------------------------------------------------------------------
(* Responses *)

Resp(op, c, status, flash) == [op |-> op, client |-> c, status |-> status, flash |-> flash]

NoRequest == [kind |-> "none"]

\* abort(403)
Forbidden(r) == r.status = "403"

\* an exception no handler catches: the request ends in a 500
Fault(r) == r.status = "500"

\* flash("Email already exists! Please login instead."); redirect to login
DuplicateEmail(r) ==
    /\ r.op = "register"
    /\ r.status = "302:login"
    /\ r.flash = "Email already exists! Please login instead."

\* flash("This email doesn't exist in our database!"); the login page again
UnknownEmail(r) ==
    /\ r.op = "login"
    /\ r.status = "200"
    /\ r.flash = "This email doesn't exist in our database!"

\* flash("Incorrect password, try again!"); the login page again
BadPassword(r) ==
    /\ r.op = "login"
    /\ r.status = "200"
    /\ r.flash = "Incorrect password, try again!"

\* flash("You need to be logged in to make a comment!"); redirect to login
Unauthenticated(r) ==
    /\ r.op = "show_post"
    /\ r.status = "302:login"
    /\ r.flash = "You need to be logged in to make a comment!"

\* users, blog_posts and comments are the rows of the three tables; session is
\* each browser's logged-in user id (Null: none); response is the outcome of the
\* last request served; pending is the row a request in flight is about to commit.
TypeOK ==
    /\ \A u \in users :
           /\ u.id \in Nat \ {Null}
           /\ u.email \in Emails
           /\ u.name \in Names
           /\ u.password.method = "pbkdf2:sha256"
           /\ u.password.salt \in Salts
    /\ \A p \in posts :
           /\ p.id \in PostIds
           /\ p.author_id \in Nat
           /\ p.title \in Titles
           /\ p.subtitle \in Subtitles
           /\ p.body \in Bodies
           /\ p.img_url \in ImgUrls
           /\ p.date \in {Strftime(d) : d \in Dates}
    /\ \A cm \in comments :
           /\ cm.id \in 1 .. MaxCommentId
           /\ cm.text \in CommentTexts
           /\ cm.author_id \in Nat
           /\ cm.post_id \in PostIds \cup {Null}
    /\ \A u1, u2 \in users : u1.id = u2.id => u1 = u2
    /\ \A p1, p2 \in posts : p1.id = p2.id => p1 = p2
    /\ \A c1, c2 \in comments : c1.id = c2.id => c1 = c2
    /\ session \in [Clients -> Nat]
    /\ response.client \in Clients
    /\ response.status \in {"none", "200", "302:get_all_posts", "302:login",
                             "302:show_post", "403", "500"}
    /\ \A c \in Clients : pending[c].kind \in {"none", "register", "add_new_post"}

Init ==
    /\ users = {}
    /\ posts = {}
    /\ comments = {}
    /\ session = [c \in Clients |-> Null]
    /\ response = Resp("none", "c1", "none", "")
    /\ pending = [c \in Clients |-> NoRequest]

-----------------------------------------------------------------------------
(* Handlers *)

\* GET /
GetAllPosts(c) ==
    /\ response' = Resp("get_all_posts", c, "200", "")
    /\ UNCHANGED <<users, posts, comments, session, pending>>

\* User(email=..., password=..., name=...): the id is the store's to give
NewUser(email, pwhash, name) == [email |-> email, password |-> pwhash, name |-> name]

\* db.session.add(new_user); db.session.commit(); login_user(new_user).
\* The INSERT gives the row its id and fails with IntegrityError on a taken email.
CommitNewUser(c, new_user) ==
    LET row == [id |-> NextId(users), email |-> new_user.email,
                password |-> new_user.password, name |-> new_user.name]
    IN IF EmailUniqueOk(users, row) THEN
           /\ users' = users \cup {row}
           /\ session' = [session EXCEPT ![c] = row.id]
           /\ response' = Resp("register", c, "302:get_all_posts", "")
       ELSE
           /\ response' = Resp("register", c, "500", "")
           /\ UNCHANGED <<users, session>>

\* /register
Register(c, submitted, email, password, name) ==
    IF ~submitted THEN
        /\ response' = Resp("register", c, "200", "")
        /\ UNCHANGED <<users, posts, comments, session, pending>>
    ELSE IF UsersByEmail(email) # {} THEN
        /\ response' = Resp("register", c, "302:login",
                            "Email already exists! Please login instead.")
        /\ UNCHANGED <<users, posts, comments, session, pending>>
    ELSE \E salt \in Salts :
        /\ CommitNewUser(c, NewUser(email, generate_password_hash(password, salt), name))
        /\ UNCHANGED <<posts, comments, pending>>

\* /login
Login(c, submitted, email, password) ==
    IF ~submitted THEN
        /\ response' = Resp("login", c, "200", "")
        /\ UNCHANGED <<users, posts, comments, session, pending>>
    ELSE IF UsersByEmail(email) = {} THEN
        /\ response' = Resp("login", c, "200", "This email doesn't exist in our database!")
        /\ UNCHANGED <<users, posts, comments, session, pending>>
    ELSE \E user \in UsersByEmail(email) :
        IF check_password_hash(user.password, password) THEN
            /\ session' = [session EXCEPT ![c] = user.id]
            /\ response' = Resp("login", c, "302:get_all_posts", "")
            /\ UNCHANGED <<users, posts, comments, pending>>
        ELSE
            /\ response' = Resp("login", c, "200", "Incorrect password, try again!")
            /\ UNCHANGED <<users, posts, comments, session, pending>>

\* a logout that leaves the session as it is
LogoutUserKeep(sess, c) == sess

\* logout_user(): the browser's session loses its user id
LogoutUser(sess, c) == [sess EXCEPT ![c] = Null]

\* /logout
Logout(c) ==
    /\ session' = LogoutUser(session, c)
    /\ response' = Resp("logout", c, "302:get_all_posts", "")
    /\ UNCHANGED <<users, posts, comments, pending>>

\* post.html rendered for the post the request names
RenderPost(post_id) == IF PostsById(post_id) = {} THEN "500" ELSE "200"

\* the post_id column of a Comment built with post=requested_post, post_id=post_id:
\* the id of the loaded post; with post=None the flush keeps post_id or clears it
StoredPostRef(post_id) == IF PostsById(post_id) # {} THEN {post_id} ELSE {post_id, Null}

\* edit_form.author.data: the author field holds what the handler filled it with,
\* author=post.author
FormAuthor(post_id) == {p.author_id : p \in PostsById(post_id)}

\* /post/<post_id>
ShowPost(c, post_id, submitted, text) ==
    IF ~submitted THEN
        /\ response' = Resp("show_post", c, RenderPost(post_id), "")
        /\ UNCHANGED <<users, posts, comments, session, pending>>
    ELSE IF IsAuthenticated(c) THEN
        \E ref \in StoredPostRef(post_id) :
            LET new_comment == [id |-> NextId(comments), text |-> text,
                                author_id |-> CurrentUserId(c), post_id |-> ref]
            IN /\ new_comment.id <= MaxCommentId
               /\ comments' = comments \cup {new_comment}
               /\ response' = Resp("show_post", c, RenderPost(post_id), "")
               /\ UNCHANGED <<users, posts, session, pending>>
    ELSE
        /\ response' = Resp("show_post", c, "302:login",
                            "You need to be logged in to make a comment!")
        /\ UNCHANGED <<users, posts, comments, session, pending>>

\* BlogPost(title=..., ..., author=current_user, date=date.today().strftime(...))
NewPost(author_id, title, subtitle, body, img_url, today) ==
    [author_id |-> author_id, title |-> title, subtitle |-> subtitle,
     date |-> Strftime(today), body |-> body, img_url |-> img_url]

\* db.session.add(new_post); db.session.commit().
\* The INSERT gives the row its id and fails with IntegrityError on a taken title.
CommitNewPost(c, new_post) ==
    LET row == [id |-> NextId(posts), author_id |-> new_post.author_id,
                title |-> new_post.title, subtitle |-> new_post.subtitle,
                date |-> new_post.date, body |-> new_post.body,
                img_url |-> new_post.img_url]
    IN IF TitleUniqueOk(posts, row) THEN
           /\ row.id <= MaxPostId
           /\ posts' = posts \cup {row}
           /\ response' = Resp("add_new_post", c, "302:get_all_posts", "")
       ELSE
           /\ response' = Resp("add_new_post", c, "500", "")
           /\ UNCHANGED posts

\* /new-post
AddNewPost(c, submitted, title, subtitle, body, img_url, today) ==
    IF AdminGate(c) # "pass" THEN
        /\ response' = Resp("add_new_post", c, AdminGate(c), "")
        /\ UNCHANGED <<users, posts, comments, session, pending>>
    ELSE IF ~submitted THEN
        /\ response' = Resp("add_new_post", c, "200", "")
        /\ UNCHANGED <<users, posts, comments, session, pending>>
    ELSE
        /\ CommitNewPost(c, NewPost(CurrentUserId(c), title, subtitle, body, img_url, today))
        /\ UNCHANGED <<users, comments, session, pending>>

\* /edit-post/<post_id>
EditPost(c, post_id, submitted, title, subtitle, img_url, body) ==
    IF AdminGate(c) # "pass" THEN
        /\ response' = Resp("edit_post", c, AdminGate(c), "")
        /\ UNCHANGED <<users, posts, comments, session, pending>>
    ELSE IF PostsById(post_id) = {} THEN
        /\ response' = Resp("edit_post", c, "500", "")
        /\ UNCHANGED <<users, posts, comments, session, pending>>
    ELSE IF ~submitted THEN
        /\ response' = Resp("edit_post", c, "200", "")
        /\ UNCHANGED <<users, posts, comments, session, pending>>
    ELSE \E post \in PostsById(post_id), author \in FormAuthor(post_id) :
        LET edited == [post EXCEPT !.title = title, !.subtitle = subtitle,
                                   !.img_url = img_url, !.author_id = author,
                                   !.body = body]
        IN IF TitleUniqueOk(posts, edited) THEN
               /\ posts' = (posts \ {post}) \cup {edited}
               /\ response' = Resp("edit_post", c, "302:show_post", "")
               /\ UNCHANGED <<users, comments, session, pending>>
           ELSE
               /\ response' = Resp("edit_post", c, "500", "")
               /\ UNCHANGED <<users, posts, comments, session, pending>>

\* delete_post behind the admin_only gate
DeletePostGated(c, post_id) ==
    IF AdminGate(c) # "pass" THEN
        /\ response' = Resp("delete_post", c, AdminGate(c), "")
        /\ UNCHANGED <<users, posts, comments, session, pending>>
    ELSE IF PostsById(post_id) = {} THEN
        /\ response' = Resp("delete_post", c, "500", "")
        /\ UNCHANGED <<users, posts, comments, session, pending>>
    ELSE \E post_to_delete \in PostsById(post_id) :
        /\ posts' = posts \ {post_to_delete}
        /\ comments' = {IF cm.post_id = post_to_delete.id
                            THEN [cm EXCEPT !.post_id = Null] ELSE cm : cm \in comments}
        /\ response' = Resp("delete_post", c, "302:get_all_posts", "")
        /\ UNCHANGED <<users, session, pending>>

\* /delete/<post_id>
DeletePost(c, post_id) ==
    IF PostsById(post_id) = {} THEN
        /\ response' = Resp("delete_post", c, "500", "")
        /\ UNCHANGED <<users, posts, comments, session, pending>>
    ELSE \E post_to_delete \in PostsById(post_id) :
        /\ posts' = posts \ {post_to_delete}
        /\ comments' = {IF cm.post_id = post_to_delete.id
                            THEN [cm EXCEPT !.post_id = Null] ELSE cm : cm \in comments}
        /\ response' = Resp("delete_post", c, "302:get_all_posts", "")
        /\ UNCHANGED <<users, session, pending>>

Next ==
    \/ \E c \in Browsers : GetAllPosts(c)
    \/ \E c \in Browsers, submitted \in BOOLEAN, email \in Emails,
          password \in Passwords, name \in Names :
            Register(c, submitted, email, password, name)
    \/ \E c \in Browsers, submitted \in BOOLEAN, email \in Emails, password \in Passwords :
            Login(c, submitted, email, password)
    \/ \E c \in Browsers : Logout(c)
    \/ \E c \in Browsers, post_id \in PostIds, submitted \in BOOLEAN, text \in CommentTexts :
            ShowPost(c, post_id, submitted, text)
    \/ \E c \in Browsers, submitted \in BOOLEAN, title \in Titles, subtitle \in Subtitles,
          body \in Bodies, img_url \in ImgUrls, today \in Dates :
            AddNewPost(c, submitted, title, subtitle, body, img_url, today)
    \/ \E c \in Browsers, post_id \in PostIds, submitted \in BOOLEAN, title \in Titles,
          subtitle \in Subtitles, img_url \in ImgUrls, body \in Bodies :
            EditPost(c, post_id, submitted, title, subtitle, img_url, body)
    \/ \E c \in Browsers, post_id \in PostIds : DeletePost(c, post_id)

Spec == Init /\ [][Next]_vars

-----------------------------------------------------------------------------
(* Overlapping requests: register and add_new_post, each cut at its commit. *)
(* The handler runs up to the point where it holds the row it is about to  *)
(* store; the INSERT and what follows it is the second step.               *)

\* /register up to db.session.add(new_user)
RegisterBegin(c, email, password, name) ==
    /\ pending[c] = NoRequest
    /\ IF UsersByEmail(email) # {} THEN
           /\ response' = Resp("register", c, "302:login",
                               "Email already exists! Please login instead.")
           /\ UNCHANGED <<users, posts, comments, session, pending>>
       ELSE \E salt \in Salts :
           /\ pending' = [pending EXCEPT ![c] =
                            [kind |-> "register",
                             row |-> NewUser(email, generate_password_hash(password, salt),
                                             name)]]
           /\ UNCHANGED <<users, posts, comments, session, response>>

\* /register from db.session.commit() on
RegisterCommit(c) ==
    /\ pending[c].kind = "register"
    /\ CommitNewUser(c, pending[c].row)
    /\ pending' = [pending EXCEPT ![c] = NoRequest]
    /\ UNCHANGED <<posts, comments>>

\* /new-post up to db.session.add(new_post)
AddNewPostBegin(c, title, subtitle, body, img_url, today) ==
    /\ pending[c] = NoRequest
    /\ IF AdminGate(c) # "pass" THEN
           /\ response' = Resp("add_new_post", c, AdminGate(c), "")
           /\ UNCHANGED <<users, posts, comments, session, pending>>
       ELSE
           /\ pending' = [pending EXCEPT ![c] =
                            [kind |-> "add_new_post",
                             row |-> NewPost(CurrentUserId(c), title, subtitle, body,
                                             img_url, today)]]
           /\ UNCHANGED <<users, posts, comments, session, response>>

\* /new-post from db.session.commit() on
AddNewPostCommit(c) ==
    /\ pending[c].kind = "add_new_post"
    /\ CommitNewPost(c, pending[c].row)
    /\ pending' = [pending EXCEPT ![c] = NoRequest]
    /\ UNCHANGED <<users, comments, session>>

NextRace ==
    \/ \E c \in Clients, email \in Emails, password \in Passwords, name \in Names :
            RegisterBegin(c, email, password, name)
    \/ \E c \in Clients : RegisterCommit(c)
    \/ \E c \in Clients, title \in Titles, subtitle \in Subtitles, body \in Bodies,
          img_url \in ImgUrls, today \in Dates :
            AddNewPostBegin(c, title, subtitle, body, img_url, today)
    \/ \E c \in Clients : AddNewPostCommit(c)
    \/ \E c \in Clients, email \in Emails, password \in Passwords :
            Login(c, TRUE, email, password)
    \/ \E c \in Clients : Logout(c)

SpecRace == Init /\ [][NextRace]_vars

-----------------------------------------------------------------------------
(* Properties *)

StoreUnchanged == users' = users /\ posts' = posts /\ comments' = comments

UniqueEmails(table) == \A u1, u2 \in table : u1.email = u2.email => u1 = u2

UniqueTitles(table) == \A p1, p2 \in table : p1.title = p2.title => p1 = p2

\* the user row holds the hash of password p under some salt
RegisteredWith(u, p) == \E salt \in Salts : u.password = generate_password_hash(p, salt)

\* C1: a request to /new-post or /edit-post/<id> from a session with no identity,
\* or with an identity whose id is not 1, ends in 403 and leaves every BlogPost
\* row as it was.
C1_NonAdminForbidden ==
    [][\A c \in Clients :
          (/\ response'.client = c
           /\ response'.op \in {"add_new_post", "edit_post"}
           /\ session[c] # AdminId)
          => (Forbidden(response') /\ posts' = posts)]_vars

\* C2: register with an email that a stored User already has ends in
\* DuplicateEmail, adds no row, changes no row and establishes no session;
\* no two User rows ever share an email.
C2_DuplicateEmailRejected ==
    [][/\ \A c \in Clients, email \in Emails, password \in Passwords, name \in Names :
             (/\ response'.op = "register"
              /\ \E u \in users : u.email = email
              /\ Register(c, TRUE, email, password, name))
             => (DuplicateEmail(response') /\ users' = users /\ session' = session)
       /\ UniqueEmails(users')]_vars

\* C2 witness: a register request was turned away as DuplicateEmail and its
\* browser holds no session.
C2_Witness == DuplicateEmail(response) /\ session[response.client] = Null

\* C3: the admin's create_post with the title of an existing post ends in a
\* recoverable DuplicateTitle, not in a fault, and leaves the posts as they were.
C3_DuplicateTitleRecoverable ==
    [][\A c \in Clients, title \in Titles, subtitle \in Subtitles, body \in Bodies,
          img_url \in ImgUrls, today \in Dates :
          (/\ response'.op = "add_new_post"
           /\ AdminGate(c) = "pass"
           /\ \E p \in posts : p.title = title
           /\ AddNewPost(c, TRUE, title, subtitle, body, img_url, today))
          => (~Fault(response') /\ posts' = posts)]_vars

\* C4: in every reachable state every Comment's author_id names a stored User
\* and its post_id names a stored BlogPost.
C4_CommentRefsResolve ==
    \A cm \in comments :
        /\ \E u \in users : u.id = cm.author_id
        /\ \E p \in posts : p.id = cm.post_id

\* C5: a comment posted from a session with no identity ends in Unauthenticated
\* (redirect to login) and leaves the Comment rows as they were.
C5_AnonymousCommentRejected ==
    [][\A c \in Clients, post_id \in PostIds, text \in CommentTexts :
          (/\ response'.op = "show_post"
           /\ session[c] = Null
           /\ ShowPost(c, post_id, TRUE, text))
          => (Unauthenticated(response') /\ comments' = comments)]_vars

\* C5 witness: a comment was turned away as Unauthenticated while posts exist.
C5_Witness == Unauthenticated(response) /\ posts # {}

\* C6: login(email, q) binds the session to the user registered under that email
\* exactly when q is the password the user registered with; an unknown email ends
\* in UnknownEmail and a wrong password in BadPassword, and both leave the
\* sessions and the store as they were.
C6_LoginIffPassword ==
    [][/\ \A c \in Clients, email \in Emails, q \in Passwords :
             (response'.op = "login" /\ Login(c, TRUE, email, q)) =>
                 IF \E u \in users : u.email = email
                 THEN \A u \in users : u.email = email =>
                          IF RegisteredWith(u, q)
                          THEN /\ session' = [session EXCEPT ![c] = u.id]
                               /\ response'.status = "302:get_all_posts"
                               /\ StoreUnchanged
                          ELSE /\ BadPassword(response')
                               /\ session' = session
                               /\ StoreUnchanged
                 ELSE /\ UnknownEmail(response')
                      /\ session' = session
                      /\ StoreUnchanged
       /\ \A u \in users' : \E p \in Passwords : RegisteredWith(u, p)]_vars

\* C6 witness: a login with a wrong password was turned away while the browser
\* was logged in, and the session is still there.
C6_Witness == BadPassword(response) /\ session[response.client] # Null

\* C7: when two register requests with one email, or two create_post requests
\* with one title, both pass their checks before either commits, at most one row
\* is stored and the loser ends in DuplicateEmail/DuplicateTitle, not in a fault.
C7_RaceLoserRecoverable ==
    [][\A c \in Clients :
          (RegisterCommit(c) \/ AddNewPostCommit(c))
          => (~Fault(response') /\ UniqueEmails(users') /\ UniqueTitles(posts'))]_vars

\* C8: the admin's edit_post of a post_id that names no BlogPost ends in a
\* recoverable NotFound, not in a fault, and leaves the store as it was.
C8_EditMissingRecoverable ==
    [][\A c \in Clients, post_id \in PostIds :
          (/\ response'.client = c
           /\ response'.op = "edit_post"
           /\ AdminGate(c) = "pass"
           /\ PostsById(post_id) = {}
           /\ \E submitted \in BOOLEAN, title \in Titles, subtitle \in Subtitles,
                 img_url \in ImgUrls, body \in Bodies :
                 EditPost(c, post_id, submitted, title, subtitle, img_url, body))
          => (~Fault(response') /\ StoreUnchanged)]_vars

\* C9: logout always succeeds and leaves its session with no identity, logged in
\* before or not; a second logout would leave the sessions as the first left them;
\* no store row changes.
C9_LogoutClearsSession ==
    [][\A c \in Clients :
          (response'.op = "logout" /\ response'.client = c)
          => (/\ response'.status = "302:get_all_posts"
              /\ session'[c] = Null
              /\ \A d \in Clients \ {c} : session'[d] = session[d]
              /\ LogoutUser(session', c) = session'
              /\ StoreUnchanged)]_vars

\* C9 witness: a logout has been served, users exist and no browser is logged in.
C9_Witness ==
    /\ response.op = "logout"
    /\ users # {}
    /\ \A c \in Clients : session[c] = Null

\* C10: delete_post of an existing post removes that row whatever the session is
\* (none, a non-admin, the admin) and leaves every other BlogPost row as it was.
C10_DeleteUngated ==
    [][\A c \in Clients, post_id \in PostIds :
          (/\ response'.op = "delete_post"
           /\ \E p \in posts : p.id = post_id
           /\ DeletePost(c, post_id))
          => (/\ posts' = {p \in posts : p.id # post_id}
              /\ response'.status = "302:get_all_posts")]_vars

\* C10 witness: a browser with no session has deleted a post and another post is
\* still stored.
C10_Witness ==
    /\ response.op = "delete_post"
    /\ response.status = "302:get_all_posts"
    /\ session[response.client] = Null
    /\ posts # {}

====
